---------------------------- MODULE Spec2Model ----------------------------
(***************************************************************************)
(* Change detection and docstring generation of davishacks.                *)
(*                                                                         *)
(* Texts (file paths, file contents, replies of the generation service)    *)
(* are sequences of one-character strings, so that path.extname, the two   *)
(* code-fence regular expressions and the suffix lookup are computed       *)
(* character by character, as the code computes them.                      *)
(***************************************************************************)
EXTENDS Integers, Sequences, FiniteSets, TLC

VARIABLES
    files,    \* file system: path -> content, or NoFile for an unreadable path
    tree,     \* tree.json: absent, corrupt, or ok with path -> file_hash / NoRecord
    call,     \* the generateDocStrings call in flight (one at a time)
    hist,     \* the most recent finished call (observation only)
    cli,      \* the generate command: generateDocs of the CLI entry point
    fn,       \* harness for the pure helpers: input, output, position
    ui        \* the interactive browser: App, GenerateMode and the documentation cache

vars == <<files, tree, call, hist, cli, fn, ui>>

---------------------------------------------------------------------------
(* Bounds *)

MaxNameLen == 5      \* longest file name given to the file-type detection
MaxPieces  == 5      \* most pieces a generated reply is assembled from
MaxBatch   == 2      \* longest list of changed files in one batch
MaxMounts  == 2      \* most times the generate mode is entered in one run

---------------------------------------------------------------------------
(* Characters and text helpers *)

BT == "BT"     \* the backquote character
NL == "\n"
DOT == "."
SLASH == "/"

FENCE == <<BT, BT, BT>>

\* s[i..j], empty when j < i (String.prototype.slice on valid indices)
Slice(s, i, j) == IF j < i THEN <<>> ELSE SubSeq(s, i, j)

\* pat occurs in s starting at index i
MatchesAt(s, i, pat) ==
    /\ i >= 1
    /\ i + Len(pat) - 1 <= Len(s)
    /\ \A k \in 1..Len(pat) : s[i + k - 1] = pat[k]

\* String.prototype.endsWith
EndsWith(s, suf) == Len(suf) <= Len(s) /\ MatchesAt(s, Len(s) - Len(suf) + 1, suf)

\* all sequences over S of length at most n
RECURSIVE SeqsUpTo(_, _)
SeqsUpTo(S, n) ==
    IF n = 0 THEN {<<>>}
    ELSE LET shorter == SeqsUpTo(S, n - 1)
         IN  shorter \cup {Append(s, c) : s \in {t \in shorter : Len(t) = n - 1}, c \in S}

RECURSIVE Flatten(_)
Flatten(ss) == IF ss = <<>> THEN <<>> ELSE Head(ss) \o Flatten(Tail(ss))

---------------------------------------------------------------------------
(* path.extname (node:path, posix), as used at generateDocstringsForFile   *)
(* line 93: a right-to-left scan keeping startDot, end, preDotState.       *)

\* scan state after visiting indices i..Len(p) from the right
RECURSIVE ExtScan(_, _, _)
ExtScan(p, i, st) ==
    IF i < 1 THEN st
    ELSE IF p[i] = SLASH
         THEN IF ~st.matchedSlash
              THEN [st EXCEPT !.startPart = i + 1]          \* break
              ELSE ExtScan(p, i - 1, st)                     \* continue
         ELSE LET st1 == IF st.end = 0
                         THEN [st EXCEPT !.matchedSlash = FALSE, !.end = i + 1]
                         ELSE st
                  st2 == IF p[i] = DOT
                         THEN IF st1.startDot = 0
                              THEN [st1 EXCEPT !.startDot = i]
                              ELSE [st1 EXCEPT !.preDotState = 1]
                         ELSE IF st1.startDot # 0
                              THEN [st1 EXCEPT !.preDotState = -1]
                              ELSE st1
              IN  ExtScan(p, i - 1, st2)

\* indices are 1-based here; 0 plays the role of -1 in the JavaScript
extname(p) ==
    LET st == ExtScan(p, Len(p),
                      [startDot |-> 0, startPart |-> 1, end |-> 0,
                       matchedSlash |-> TRUE, preDotState |-> 0])
    IN  IF \/ st.startDot = 0
           \/ st.end = 0
           \/ st.preDotState = 0
           \/ /\ st.preDotState = 1
              /\ st.startDot = st.end - 2
              /\ st.startDot = st.startPart + 1
        THEN <<>>
        ELSE Slice(p, st.startDot, st.end - 1)

\* path.extname(filePath).substring(1)
fileExtOf(p) == Slice(extname(p), 2, Len(extname(p)))

fileTypeBadTsx(p) ==
    LET fileExt == fileExtOf(p)
    IN  IF fileExt = <<"t", "s">> \/ fileExt = <<"t", "s", "x">> THEN "TypeScript"
        ELSE IF fileExt = <<"j", "s">> THEN "JavaScript"
        ELSE IF fileExt = <<"j", "s", "x">> THEN "JSX"
        ELSE IF fileExt = <<"p", "y">> THEN "Python"
        ELSE "Unknown"

\* the conditional chain of generateDocstringsForFile
fileType(p) ==
    LET fileExt == fileExtOf(p)
    IN  IF fileExt = <<"t", "s">> THEN "TypeScript"
        ELSE IF fileExt = <<"t", "s", "x">> THEN "TSX"
        ELSE IF fileExt = <<"j", "s">> THEN "JavaScript"
        ELSE IF fileExt = <<"j", "s", "x">> THEN "JSX"
        ELSE IF fileExt = <<"p", "y">> THEN "Python"
        ELSE "Unknown"

---------------------------------------------------------------------------
(* Code-fence removal of generateDocstringsForFile                         *)

\* the alternatives of (?:tsx?|jsx?|python|py) in the order the regular
\* expression engine tries them (x? is greedy)
LangAlternatives ==
    << <<"t", "s", "x">>, <<"t", "s">>, <<"j", "s", "x">>, <<"j", "s">>,
       <<"p", "y", "t", "h", "o", "n">>, <<"p", "y">> >>

\* codeBlockRegex, /^FENCE(?:tsx?|jsx?|python|py)?\n([\s\S]*?)FENCE$/s : the lengths of the
\* language tags with which the whole text matches (0 for the skipped group)
CodeBlockTagLens(text) ==
    {n \in {Len(LangAlternatives[k]) : k \in 1..Len(LangAlternatives)} \cup {0} :
        /\ MatchesAt(text, 1, FENCE)
        /\ \/ n = 0
           \/ \E k \in 1..Len(LangAlternatives) :
                 Len(LangAlternatives[k]) = n /\ MatchesAt(text, 4, LangAlternatives[k])
        /\ MatchesAt(text, 4 + n, <<NL>>)
        /\ Len(text) >= 3 + n + 1 + 3
        /\ EndsWith(text, FENCE)}

\* processedText.match(codeBlockRegex) is not null
codeBlockMatches(text) == CodeBlockTagLens(text) # {}

\* match[1]: the lazy group runs up to the closing fence at the end
codeBlockGroup(text) ==
    LET n == CHOOSE m \in CodeBlockTagLens(text) : TRUE
    IN  Slice(text, 3 + n + 2, Len(text) - 3)

\* multiBlockRegex.test(processedText)
multiBlockTest(text) == \E i \in 1..Len(text) : MatchesAt(text, i, FENCE)

\* length of the optional language tag the global regular expression consumes
\* right after a fence that ends before index j
LangLenAt(text, j) ==
    LET hits == {k \in 1..Len(LangAlternatives) : MatchesAt(text, j, LangAlternatives[k])}
    IN  IF hits = {} THEN 0
        ELSE Len(LangAlternatives[CHOOSE k \in hits : \A m \in hits : k <= m])

\* processedText.replace(multiBlockRegex, ''): leftmost non-overlapping matches
RECURSIVE multiBlockReplace(_, _)
multiBlockReplace(text, i) ==
    IF i > Len(text) THEN <<>>
    ELSE IF MatchesAt(text, i, FENCE)
         THEN multiBlockReplace(text, i + 3 + LangLenAt(text, i + 3))
         ELSE <<text[i]>> \o multiBlockReplace(text, i + 1)

\* lines 154-174: the text that is written to the file
processResponse(responseText) ==
    LET afterMatch == IF codeBlockMatches(responseText) /\ codeBlockGroup(responseText) # <<>>
                      THEN codeBlockGroup(responseText)
                      ELSE responseText
    IN  IF multiBlockTest(afterMatch)
        THEN multiBlockReplace(afterMatch, 1)
        ELSE afterMatch

---------------------------------------------------------------------------
(* The workspace of the core model *)

\* an unreadable path: no content is ever equal to it
NoFile   == <<"ENOENT">>
\* no file_hash: every hash is a natural number
NoRecord == -1

PathA  == <<"a", ".", "t", "s">>
PathXA == <<"x", "/", "a", ".", "t", "s">>

Paths == {PathA, PathXA}

\* order in which a lookup walks the records of tree.json
TreeOrder == <<PathXA, PathA>>

\* contents a user gives a file
UserContents == {<<"c">>, <<"c", "c">>}

\* texts the generation service answers with; <<>> is an empty or absent text
Replies ==
    { <<>>,
      <<"d", "c">>,
      FENCE \o <<"t", "s", NL, "d", "c">> \o FENCE }

---------------------------------------------------------------------------
(* treesitter.js: generateHash, findFileInTree, updateFileHashes           *)

CharCode(c) == CASE c = "c" -> 1 [] c = "d" -> 2 [] OTHER -> 3

RECURSIVE CodeSum(_)
CodeSum(content) ==
    IF content = <<>> THEN 0 ELSE CharCode(Head(content)) + CodeSum(Tail(content))

HashMod == 5

\* a deterministic fingerprint of the content (not injective)
generateHash(content) == (CodeSum(content) + Len(content)) % HashMod

\* exact path first, else the first record in traversal order whose path
\* ends with the path asked for
\* (found = FALSE stands for the null result)
findFileInTree(treeJson, filePath) ==
    IF treeJson[filePath] # NoRecord
    THEN [found |-> TRUE, path |-> filePath, file_hash |-> treeJson[filePath]]
    ELSE LET hits == {k \in 1..Len(TreeOrder) :
                         /\ treeJson[TreeOrder[k]] # NoRecord
                         /\ EndsWith(TreeOrder[k], filePath)}
         IN  IF hits = {}
             THEN [found |-> FALSE, path |-> <<>>, file_hash |-> NoRecord]
             ELSE LET k == CHOOSE h \in hits : \A m \in hits : h <= m
                  IN  [found |-> TRUE, path |-> TreeOrder[k],
                       file_hash |-> treeJson[TreeOrder[k]]]

\* recompute the hash of every named path from the file as it is now and
\* write the snapshot back; other records are left alone
RECURSIVE updateFileHashes(_, _, _)
updateFileHashes(treeJson, fs, filePaths) ==
    IF filePaths = <<>> THEN treeJson
    ELSE updateFileHashes(
             [treeJson EXCEPT ![Head(filePaths)] = generateHash(fs[Head(filePaths)])],
             fs, Tail(filePaths))

---------------------------------------------------------------------------
(* generateDocStrings and generateDocstringsForFile                        *)

IdleCall ==
    [pc |-> "idle", path |-> <<>>, viaTree |-> FALSE, external |-> FALSE,
     result |-> FALSE, reqType |-> "none", reqContent |-> <<>>,
     reply |-> [kind |-> "none", text |-> <<>>]]

\* a file that is not in the tree is never regenerated
isDiffOnlyTracked(treeJson, filePath, fileContents) ==
    LET result == findFileInTree(treeJson, filePath)
    IN  result.found /\ generateHash(fileContents) # result.file_hash

\* the comparison of the hashes is inverted
isDiffInverted(treeJson, filePath, fileContents) ==
    LET result == findFileInTree(treeJson, filePath)
    IN  ~result.found \/ generateHash(fileContents) = result.file_hash

\* lines 63-68: not in the tree, or the hash is different
isDiff(treeJson, filePath, fileContents) ==
    LET result == findFileInTree(treeJson, filePath)
        currentHash == generateHash(fileContents)
    IN  ~result.found \/ currentHash # result.file_hash

\* generateDocstringsForFile up to its await: the file is read and the request
\* is built inside the try block, so an unreadable file gives false
StartGenerationForFile(filePath, viaTree) ==
    IF files[filePath] = NoFile
    THEN [IdleCall EXCEPT !.pc = "returned", !.path = filePath,
                          !.viaTree = viaTree, !.result = FALSE]
    ELSE [IdleCall EXCEPT !.pc = "awaiting", !.path = filePath,
                          !.viaTree = viaTree, !.external = TRUE,
                          !.reqType = fileType(filePath),
                          !.reqContent = files[filePath]]

\* what the history notes when a call returns or raises: its outcome, and
\* that the file has not been edited since
Remember(h, c) ==
    IF c.pc = "awaiting" THEN h
    ELSE [path |-> c.path,
          last |-> IF c.pc = "raised" THEN "raised"
                   ELSE IF c.result THEN "true" ELSE "false",
          clean |-> TRUE]

\* a snapshot that does not parse is taken for a missing one
BeginDocStringsCorruptAsAbsent(filePath) ==
    /\ call.pc = "idle"
    /\ call' =
         IF tree.state \in {"absent", "corrupt"}
         THEN StartGenerationForFile(filePath, FALSE)
         ELSE IF files[filePath] = NoFile
         THEN [IdleCall EXCEPT !.pc = "raised", !.path = filePath, !.viaTree = TRUE]
         ELSE IF isDiff(tree.records, filePath, files[filePath])
         THEN StartGenerationForFile(filePath, TRUE)
         ELSE [IdleCall EXCEPT !.pc = "returned", !.path = filePath,
                               !.viaTree = TRUE, !.result = FALSE]
    /\ hist' = Remember(hist, call')
    /\ UNCHANGED <<files, tree>>

\* a file that needs no generation is reported as generated
BeginDocStringsSkipTrue(filePath) ==
    /\ call.pc = "idle"
    /\ call' =
         IF tree.state = "absent"
         THEN StartGenerationForFile(filePath, FALSE)
         ELSE IF tree.state = "corrupt" \/ files[filePath] = NoFile
         THEN [IdleCall EXCEPT !.pc = "raised", !.path = filePath, !.viaTree = TRUE]
         ELSE IF isDiff(tree.records, filePath, files[filePath])
         THEN StartGenerationForFile(filePath, TRUE)
         ELSE [IdleCall EXCEPT !.pc = "returned", !.path = filePath,
                               !.viaTree = TRUE, !.result = TRUE]
    /\ hist' = Remember(hist, call')
    /\ UNCHANGED <<files, tree>>

\* generateDocStrings from its entry to the first await or to its return
BeginDocStrings(filePath) ==
    /\ call.pc = "idle"
    /\ call' =
         IF tree.state = "absent"
         THEN StartGenerationForFile(filePath, FALSE)
         ELSE IF tree.state = "corrupt" \/ files[filePath] = NoFile
         THEN [IdleCall EXCEPT !.pc = "raised", !.path = filePath, !.viaTree = TRUE]
         ELSE IF isDiff(tree.records, filePath, files[filePath])
         THEN StartGenerationForFile(filePath, TRUE)
         ELSE [IdleCall EXCEPT !.pc = "returned", !.path = filePath,
                               !.viaTree = TRUE, !.result = FALSE]
    /\ hist' = Remember(hist, call')
    /\ UNCHANGED <<files, tree>>

\* generateDocstringsForFile without its try block: an error of the service
\* leaves the call as an exception
GenerationSettlesNoCatch(outcome) ==
    /\ call.pc = "awaiting"
    /\ LET success == outcome.kind = "text" /\ outcome.text # <<>>
           fs == IF success
                 THEN [files EXCEPT ![call.path] = processResponse(outcome.text)]
                 ELSE files
       IN  /\ files' = fs
           /\ tree' = IF call.viaTree /\ outcome.kind # "throws"
                      THEN [tree EXCEPT !.records = updateFileHashes(@, fs, <<call.path>>)]
                      ELSE tree
           /\ call' = [call EXCEPT !.pc = IF outcome.kind = "throws"
                                          THEN "raised" ELSE "returned",
                                   !.result = success, !.reply = outcome]
           /\ hist' = Remember(hist, call')

\* the hashes of every path are committed, not of the processed one alone
GenerationSettlesAllPaths(outcome) ==
    /\ call.pc = "awaiting"
    /\ LET success == outcome.kind = "text" /\ outcome.text # <<>>
           fs == IF success
                 THEN [files EXCEPT ![call.path] = processResponse(outcome.text)]
                 ELSE files
       IN  /\ files' = fs
           /\ tree' = IF call.viaTree
                      THEN [tree EXCEPT !.records =
                               [q \in Paths |-> IF fs[q] = NoFile THEN @[q]
                                                ELSE generateHash(fs[q])]]
                      ELSE tree
           /\ call' = [call EXCEPT !.pc = "returned", !.result = success,
                                   !.reply = outcome]
           /\ hist' = Remember(hist, call')

\* the generation service settles: it throws, or answers with a text; then
\* generateDocstringsForFile writes the file and generateDocStrings commits
\* the hash (line 73) and returns
GenerationSettles(outcome) ==
    /\ call.pc = "awaiting"
    /\ LET success == outcome.kind = "text" /\ outcome.text # <<>>
           fs == IF success
                 THEN [files EXCEPT ![call.path] = processResponse(outcome.text)]
                 ELSE files
       IN  /\ files' = fs
           /\ tree' = IF call.viaTree
                      THEN [tree EXCEPT !.records = updateFileHashes(@, fs, <<call.path>>)]
                      ELSE tree
           /\ call' = [call EXCEPT !.pc = "returned", !.result = success,
                                   !.reply = outcome]
           /\ hist' = Remember(hist, call')

---------------------------------------------------------------------------
(* Core specification: any caller processes any path, users edit files     *)

CliOff == [pc |-> "off", input |-> "undefined", changedFiles |-> <<>>, idx |-> 0,
           attempted |-> <<>>, htmlCalls |-> 0, outcome |-> "none", exitCode |-> 0]

FnOff == [pc |-> "off", in |-> <<>>, out |-> <<>>, type |-> "none"]

\* nothing is displayed
NoDisplay == [kind |-> "null", of |-> <<>>]

\* the browser before it is rendered
UiOff ==
    [rendered |-> FALSE, activeMode |-> "null", mounts |-> 0, pending |-> {},
     isLoading |-> FALSE, error |-> FALSE, fileStructure |-> {},
     selectedFile |-> <<>>, selectedFileContent |-> NoDisplay,
     selectedFileDocs |-> NoDisplay, docs |-> [p \in Paths |-> FALSE],
     isEditing |-> FALSE, event |-> "none"]

InitHist == [path |-> <<>>, last |-> "none", clean |-> TRUE]

NoRecords == [p \in Paths |-> NoRecord]

\* the outcomes of one call of the generation service
Outcomes == {[kind |-> "throws", text |-> <<>>]} \cup
            {[kind |-> "text", text |-> r] : r \in Replies}

\* the workspaces a run can start from
InitWorkspace ==
    /\ files \in [Paths -> UserContents \cup {NoFile}]
    /\ files[PathA] # NoFile
    /\ tree \in {[state |-> "absent", records |-> NoRecords],
                 [state |-> "corrupt", records |-> NoRecords]} \cup
                {[state |-> "ok", records |-> r] :
                    r \in [Paths -> {generateHash(c) : c \in UserContents} \cup {NoRecord}]}

Init ==
    /\ InitWorkspace
    /\ call = IdleCall
    /\ hist = InitHist
    /\ cli = CliOff
    /\ fn = FnOff
    /\ ui = UiOff

generateDocStrings ==
    /\ cli.pc = "off"
    /\ \E filePath \in Paths : BeginDocStrings(filePath)
    /\ UNCHANGED <<cli, fn, ui>>

generateContent ==
    /\ \E outcome \in Outcomes : GenerationSettles(outcome)
    /\ UNCHANGED <<cli, fn, ui>>

CallerResumes ==
    /\ cli.pc = "off"
    /\ call.pc \in {"returned", "raised"}
    /\ call' = IdleCall
    /\ UNCHANGED <<files, tree, hist, cli, fn, ui>>

UserEdit ==
    /\ \E p \in Paths, c \in UserContents :
          /\ files[p] # NoFile
          /\ files[p] # c
          /\ files' = [files EXCEPT ![p] = c]
          /\ hist' = [hist EXCEPT !.clean = @ /\ p # hist.path]
    /\ UNCHANGED <<tree, call, cli, fn, ui>>

Next == generateDocStrings \/ generateContent \/ CallerResumes \/ UserEdit

Spec == Init /\ [][Next]_vars

---------------------------------------------------------------------------
(* Properties of the core specification *)

\* the step in which a call of generateDocStrings starts
CallBegins == call.pc = "idle" /\ call'.pc # "idle"

\* the step in which the generation service settles and the call returns
CallSettles == call.pc = "awaiting" /\ call'.pc = "returned"

\* C1. Idempotence: a call on the path of the call that returned just before
\* it, with no edit of the file in between, is Skipped: it returns false and
\* sends nothing to the generation service.
C1_SecondCallSkipped ==
    [][(/\ CallBegins
        /\ hist.path = call'.path
        /\ hist.last \in {"true", "false"}
        /\ hist.clean)
       => (call'.pc = "returned" /\ ~call'.result /\ ~call'.external)]_vars

\* C2. Hash consistency: when a call returns Generated, the snapshot exists
\* and the record found for the path holds the hash of the file's content.
C2_HashConsistentAfterGenerated ==
    [][(CallSettles /\ call'.result)
       => /\ tree'.state = "ok"
          /\ findFileInTree(tree'.records, call'.path).found
          /\ findFileInTree(tree'.records, call'.path).file_hash
                = generateHash(files'[call'.path])]_vars

\* C3. No partial commit: when the generation service throws or answers
\* with no text, the snapshot and the file are what they were before.
C3_NoCommitOnFailure ==
    [][(CallSettles /\ ~call'.result) => (tree' = tree /\ files' = files)]_vars

\* C4. FileRecord invariant: a file_hash changes only in the step that
\* completes a successful generation for that path, and then it is the hash
\* of the content that generation wrote.
C4_HashOnlyFromSuccess ==
    [][\A p \in Paths :
          tree'.records[p] # tree.records[p]
          => /\ CallSettles
             /\ call'.result
             /\ call'.path = p
             /\ tree'.records[p] = generateHash(files'[p])]_vars

\* C5. Unchanged file: when the snapshot records the path with the hash of
\* the file's current content, the call returns false at once, sends nothing
\* to the generation service, and leaves the file and the snapshot alone.
C5_UnchangedSkipped ==
    [][(/\ CallBegins
        /\ tree.state = "ok"
        /\ files[call'.path] # NoFile
        /\ tree.records[call'.path] = generateHash(files[call'.path]))
       => /\ call'.pc = "returned"
          /\ ~call'.result
          /\ ~call'.external
          /\ files' = files
          /\ tree' = tree]_vars

\* a call on an unchanged, recorded file has been skipped
C5_Witness ==
    /\ call.pc = "returned"
    /\ call.viaTree
    /\ ~call.external
    /\ ~call.result
    /\ tree.state = "ok"
    /\ files[call.path] # NoFile
    /\ tree.records[call.path] = generateHash(files[call.path])

\* C6. First run: with no snapshot file, a call that returns Generated
\* leaves a snapshot with a record for the path holding the hash of the
\* content the file had when the call was made.
C6_FirstRunRecordsHash ==
    (call.pc = "returned" /\ call.result /\ ~call.viaTree)
    => /\ tree.state = "ok"
       /\ tree.records[call.path] = generateHash(call.reqContent)

\* C7. Staleness decision: for a readable file and a snapshot that is absent
\* or parses, generation is attempted iff the snapshot is absent, or the
\* lookup finds no record, or the record's hash differs from the hash of the
\* current content.
C7_StaleIff ==
    [][(/\ CallBegins
        /\ tree.state # "corrupt"
        /\ files[call'.path] # NoFile)
       => (call'.external
           <=> \/ tree.state = "absent"
               \/ ~findFileInTree(tree.records, call'.path).found
               \/ findFileInTree(tree.records, call'.path).file_hash
                     # generateHash(files[call'.path]))]_vars

\* generation is under way for a file whose record holds another hash, and
\* for a file the snapshot has no record of at all
C7_Witness ==
    /\ call.pc = "awaiting"
    /\ call.viaTree
    /\ tree.state = "ok"
    /\ \/ /\ tree.records[call.path] # NoRecord
          /\ tree.records[call.path] # generateHash(call.reqContent)
       \/ \A p \in Paths : tree.records[p] = NoRecord

\* C11. A failed generation is a value: when the service throws or answers
\* with no text, the call does not raise, it reports false, and the content
\* of every file is what it was.
C11_FailureIsFalse ==
    [][(/\ call.pc = "awaiting"
        /\ call'.pc # "awaiting"
        /\ call'.reply.kind = "throws" \/ call'.reply.text = <<>>)
       => /\ call'.pc = "returned"
          /\ ~call'.result
          /\ files' = files]_vars

\* the service has thrown, the call has returned false and the file holds
\* the content that was sent
C11_Witness ==
    /\ call.pc = "returned"
    /\ call.external
    /\ call.reply.kind = "throws"
    /\ ~call.result
    /\ files[call.path] = call.reqContent

\* C12. A snapshot that exists and does not parse: the call ends in an
\* error, asks the service nothing, and writes neither a file nor the
\* snapshot.
C12_CorruptSnapshotRaises ==
    [][(CallBegins /\ tree.state = "corrupt")
       => /\ call'.pc = "raised"
          /\ ~call'.external
          /\ files' = files
          /\ tree' = tree]_vars

\* a call on a readable file has raised on a corrupt snapshot
C12_Witness ==
    /\ call.pc = "raised"
    /\ tree.state = "corrupt"
    /\ files[call.path] # NoFile
    /\ ~call.external

\* C16. The call returns true iff, during this call, the service answered
\* with a text and the cleaned text was written to the file; a call that
\* returns false has written nothing.
C16_TrueIffWritten ==
    [][(call.pc # "returned" /\ call'.pc = "returned")
       => /\ call'.result
             <=> /\ call.pc = "awaiting"
                 /\ call'.reply.kind = "text"
                 /\ call'.reply.text # <<>>
                 /\ files'[call'.path] = processResponse(call'.reply.text)
          /\ ~call'.result => files' = files]_vars

\* a call has returned true and the file holds the cleaned reply, which is
\* not what the file held before
C16_Witness ==
    /\ call.pc = "returned"
    /\ call.result
    /\ call.reply.kind = "text"
    /\ files[call.path] = processResponse(call.reply.text)
    /\ files[call.path] # call.reqContent

\* C19. Processing a path changes the snapshot record of that path only:
\* a record changes only when the call on its path settles.
C19_CommitOnlyOwnPath ==
    [][\A q \in Paths :
          tree'.records[q] # tree.records[q]
          => /\ call.pc = "awaiting"
             /\ call'.pc = "returned"
             /\ q = call.path]_vars

\* the hash of the processed path has been committed while the record of the
\* other path is still not the hash of that file
C19_Witness ==
    /\ call.pc = "returned"
    /\ call.viaTree
    /\ call.external
    /\ tree.records[call.path] = generateHash(files[call.path])
    /\ \E q \in Paths \ {call.path} :
          /\ files[q] # NoFile
          /\ tree.records[q] # generateHash(files[q])

\* C20. Write, then commit, then return: when a call that generated for a
\* stale file returns, the cleaned reply has been written and the snapshot
\* holds, for the path, the hash of the content that was written.
C20_WriteThenCommit ==
    [][(CallSettles /\ call'.result)
       => /\ files'[call.path] = processResponse(call'.reply.text)
          /\ tree'.state = "ok"
          /\ tree'.records[call.path] = generateHash(files'[call.path])]_vars

\* the same with a snapshot file in place: there the order holds
WriteThenCommitWithTree ==
    [][(CallSettles /\ call.viaTree)
       => /\ call'.result => files'[call.path] = processResponse(call'.reply.text)
          /\ tree'.records[call.path] = generateHash(files'[call.path])]_vars

---------------------------------------------------------------------------
(* File-type detection on its own: every short file name over NameChars *)

NameChars == {DOT, SLASH, "t", "s", "x", "j", "p", "y"}

ParkedWorkspace ==
    /\ files = [p \in Paths |-> NoFile]
    /\ tree = [state |-> "absent", records |-> NoRecords]
    /\ call = IdleCall
    /\ hist = InitHist
    /\ cli = CliOff
    /\ ui = UiOff

InitType ==
    /\ ParkedWorkspace
    /\ fn \in {[FnOff EXCEPT !.pc = "name", !.in = n] : n \in SeqsUpTo(NameChars, MaxNameLen)}

\* lines 93-105 of generateDocstringsForFile
detectFileType ==
    /\ fn.pc = "name"
    /\ fn' = [fn EXCEPT !.pc = "typed", !.type = fileType(fn.in)]
    /\ UNCHANGED <<files, tree, call, hist, cli, ui>>

NextType == detectFileType

SpecType == InitType /\ [][NextType]_vars

FileTypes == {"TypeScript", "TSX", "JavaScript", "JSX", "Python", "Unknown"}

\* the extensions the claim names, with their types
ExtensionTable ==
    { [ext |-> <<"t", "s">>, type |-> "TypeScript"],
      [ext |-> <<"t", "s", "x">>, type |-> "TSX"],
      [ext |-> <<"j", "s">>, type |-> "JavaScript"],
      [ext |-> <<"j", "s", "x">>, type |-> "JSX"],
      [ext |-> <<"p", "y">>, type |-> "Python"] }

\* the last component of name (trailing separators aside) is something
\* non-empty, then a dot, then ext
HasExtension(name, ext) ==
    \E i \in 1..Len(name), j \in 1..Len(name) :
        /\ i <= j
        /\ i = 1 \/ name[i - 1] = SLASH
        /\ \A k \in i..j : name[k] # SLASH
        /\ \A k \in (j + 1)..Len(name) : name[k] = SLASH
        /\ j - i + 1 >= Len(ext) + 2
        /\ EndsWith(SubSeq(name, i, j), <<DOT>> \o ext)

\* C9. The detected type is one of the six values, and it is the type the
\* table gives the file's extension: Unknown for every other name.
C9_TypeFromExtension ==
    fn.pc = "typed"
    => /\ fn.type \in FileTypes
       /\ \A e \in ExtensionTable : fn.type = e.type <=> HasExtension(fn.in, e.ext)

\* the file x.tsx has been typed TSX, not TypeScript
C9_Witness ==
    /\ fn.pc = "typed"
    /\ fn.in = <<"x", DOT, "t", "s", "x">>
    /\ fn.type = "TSX"

---------------------------------------------------------------------------
(* Code-fence removal on its own: every reply assembled from few pieces *)

Pieces ==
    { FENCE, <<BT>>, <<NL>>, <<"t", "s">>, <<"x">>, <<"p", "y">>,
      <<"t", "h", "o", "n">>, <<"c">> }

InitFence ==
    /\ ParkedWorkspace
    /\ fn \in {[FnOff EXCEPT !.pc = "reply", !.in = Flatten(ps)] :
                  ps \in SeqsUpTo(Pieces, MaxPieces)}

\* lines 152-176: a reply with a text is cleaned and written
cleanReply ==
    /\ fn.pc = "reply"
    /\ fn.in # <<>>
    /\ fn' = [fn EXCEPT !.pc = "written", !.out = processResponse(fn.in)]
    /\ UNCHANGED <<files, tree, call, hist, cli, ui>>

NextFence == cleanReply

SpecFence == InitFence /\ [][NextFence]_vars

HasFence(text) == \E i \in 1..Len(text) : MatchesAt(text, i, FENCE)

\* text is an opening fence, a tag of n characters, a newline, inner, and a
\* closing fence, with no fence inside inner
SingleBlock(text, n) ==
    /\ MatchesAt(text, 1, FENCE)
    /\ Len(text) >= 3 + n + 1 + 3
    /\ \A k \in 4..(3 + n) : text[k] \notin {BT, NL}
    /\ text[4 + n] = NL
    /\ EndsWith(text, FENCE)
    /\ ~HasFence(Slice(text, 5 + n, Len(text) - 3))

\* C8. Fence stripping: of a single well-formed fenced block exactly the
\* inner text is written, and no written text contains a fence.
C8_FenceStripped ==
    fn.pc = "written"
    => /\ \A n \in 0..Len(fn.in) :
             SingleBlock(fn.in, n) => fn.out = Slice(fn.in, 5 + n, Len(fn.in) - 3)
       /\ ~HasFence(fn.out)

\* C23. Generation never empties a file: what is written for a reply with a
\* text is not the empty text.
C23_NeverWritesEmpty ==
    fn.pc = "written" => fn.out # <<>>

---------------------------------------------------------------------------
(* The generate command: generateDocs of the CLI entry point *)

InitCli ==
    /\ InitWorkspace
    /\ call = IdleCall
    /\ hist = InitHist
    /\ cli = [CliOff EXCEPT !.pc = "start", !.input = "generate"]
    /\ fn = FnOff
    /\ ui = UiOff

\* generateDocs without the early return of lines 45-48: an empty list goes
\* on to generateHtml
getChangedFilesNoEarlyReturn ==
    /\ cli.pc = "start"
    /\ \/ cli' = [cli EXCEPT !.pc = "done", !.outcome = "abort", !.exitCode = 1]
       \/ \E changedFiles \in SeqsUpTo(Paths, MaxBatch) :
             cli' = IF Len(changedFiles) = 0
                    THEN [cli EXCEPT !.pc = "html"]
                    ELSE [cli EXCEPT !.pc = "loop", !.changedFiles = changedFiles,
                                     !.idx = 1]
    /\ UNCHANGED <<files, tree, call, hist, fn, ui>>

\* lines 40-49: DocManager.getChangedFiles answers with a list or raises
getChangedFiles ==
    /\ cli.pc = "start"
    /\ \/ cli' = [cli EXCEPT !.pc = "done", !.outcome = "abort", !.exitCode = 1]
       \/ \E changedFiles \in SeqsUpTo(Paths, MaxBatch) :
             cli' = IF Len(changedFiles) = 0
                    THEN [cli EXCEPT !.pc = "done", !.outcome = "nochange"]
                    ELSE [cli EXCEPT !.pc = "loop", !.changedFiles = changedFiles,
                                     !.idx = 1]
    /\ UNCHANGED <<files, tree, call, hist, fn, ui>>

\* the loop without its await: the next file is started while the call on
\* the file before it is still waiting for the service
generateDocumentationNoAwait ==
    \/ /\ cli.pc = "loop"
       /\ BeginDocStrings(cli.changedFiles[cli.idx])
       /\ cli' = [cli EXCEPT !.attempted = Append(@, cli.changedFiles[cli.idx])]
       /\ UNCHANGED <<fn, ui>>
    \/ /\ cli.pc = "loop"
       /\ call.pc = "awaiting"
       /\ cli.idx < Len(cli.changedFiles)
       /\ cli' = [cli EXCEPT !.idx = @ + 1,
                             !.attempted = Append(@, cli.changedFiles[cli.idx + 1])]
       /\ UNCHANGED <<files, tree, call, hist, fn, ui>>

\* lines 50-52: DocManager.generateDocumentation(file) processes the file
generateDocumentation ==
    /\ cli.pc = "loop"
    /\ BeginDocStrings(cli.changedFiles[cli.idx])
    /\ cli' = [cli EXCEPT !.attempted = Append(@, cli.changedFiles[cli.idx])]
    /\ UNCHANGED <<fn, ui>>

\* after the last file the promise of generateDocs is never resolved
documentationSettlesHangs ==
    /\ cli.pc = "loop"
    /\ call.pc \in {"returned", "raised"}
    /\ cli' = IF call.pc = "raised"
              THEN [cli EXCEPT !.pc = "done", !.outcome = "abort", !.exitCode = 1]
              ELSE IF cli.idx = Len(cli.changedFiles)
              THEN [cli EXCEPT !.pc = "hung"]
              ELSE [cli EXCEPT !.idx = @ + 1]
    /\ call' = IdleCall
    /\ UNCHANGED <<files, tree, hist, fn, ui>>

\* the catch block without its process.exit(1)
documentationSettlesNoExit ==
    /\ cli.pc = "loop"
    /\ call.pc \in {"returned", "raised"}
    /\ cli' = IF call.pc = "raised"
              THEN [cli EXCEPT !.pc = "done", !.outcome = "abort"]
              ELSE IF cli.idx = Len(cli.changedFiles)
              THEN [cli EXCEPT !.pc = "html"]
              ELSE [cli EXCEPT !.idx = @ + 1]
    /\ call' = IdleCall
    /\ UNCHANGED <<files, tree, hist, fn, ui>>

\* the await of line 52 resumes: an error goes to the catch of lines 58-61,
\* otherwise the loop goes on, and after the last file to generateHtml
documentationSettles ==
    /\ cli.pc = "loop"
    /\ call.pc \in {"returned", "raised"}
    /\ cli' = IF call.pc = "raised"
              THEN [cli EXCEPT !.pc = "done", !.outcome = "abort", !.exitCode = 1]
              ELSE IF cli.idx = Len(cli.changedFiles)
              THEN [cli EXCEPT !.pc = "html"]
              ELSE [cli EXCEPT !.idx = @ + 1]
    /\ call' = IdleCall
    /\ UNCHANGED <<files, tree, hist, fn, ui>>

\* lines 55-57: DocManager.generateHtml returns or raises
generateHtml ==
    /\ cli.pc = "html"
    /\ \E raises \in BOOLEAN :
          cli' = IF raises
                 THEN [cli EXCEPT !.pc = "done", !.htmlCalls = @ + 1,
                                  !.outcome = "abort", !.exitCode = 1]
                 ELSE [cli EXCEPT !.pc = "done", !.htmlCalls = @ + 1,
                                  !.outcome = "success"]
    /\ UNCHANGED <<files, tree, call, hist, fn, ui>>

NextCli ==
    \/ getChangedFiles
    \/ generateDocumentation
    \/ generateContent
    \/ documentationSettles
    \/ generateHtml
    \/ UserEdit

SpecCli == InitCli /\ [][NextCli]_vars

\* C10. Batch continuation: when the batch has ended and the snapshot was
\* not corrupt (a corrupt snapshot is meant to abort the batch), every path of
\* the list has been attempted, in order, whatever happened to earlier ones.
C10_EveryPathAttempted ==
    (cli.pc = "done" /\ tree.state # "corrupt") => cli.attempted = cli.changedFiles

\* C13. Exit code: when the generate command has ended, the exit code is 1
\* if an error was raised while listing the changed files, processing a file
\* or generating the HTML, and 0 if none was, the run with no changed file
\* included.
C13_ExitCode ==
    cli.pc = "done"
    => /\ cli.exitCode \in {0, 1}
       /\ cli.exitCode = 1 <=> cli.outcome = "abort"
       /\ cli.outcome \in {"nochange", "success"} => cli.exitCode = 0

\* a batch has ended with exit code 1 on an error raised while a file was
\* processed
C13_Witness ==
    /\ cli.pc = "done"
    /\ cli.exitCode = 1
    /\ cli.outcome = "abort"
    /\ Len(cli.attempted) >= 1
    /\ cli.htmlCalls = 0

\* C14. One file at a time, in the order of the list: a file is started only
\* when no call is under way, it is the next path of the list, and the calls
\* on all the paths before it have settled.
C14_OneAtATime ==
    [][cli'.attempted # cli.attempted
       => /\ call.pc = "idle"
          /\ Len(cli.attempted) = cli.idx - 1
          /\ cli'.attempted = SubSeq(cli.changedFiles, 1, cli.idx)]_vars

\* the second file of the list waits for the service after the call on the
\* first one asked the service and returned true
C14_Witness ==
    /\ cli.pc = "loop"
    /\ cli.idx = 2
    /\ cli.attempted = cli.changedFiles
    /\ call.pc = "awaiting"
    /\ call.path = cli.changedFiles[2]
    /\ hist.path = cli.changedFiles[1]
    /\ hist.last = "true"

\* the batch under the scheduling of the event loop: a step of generateDocs
\* that can be taken is taken, and every call to the generation service and
\* to DocManager settles
FairSpecCli ==
    /\ SpecCli
    /\ WF_vars(getChangedFiles)
    /\ WF_vars(generateDocumentation)
    /\ WF_vars(generateContent)
    /\ WF_vars(documentationSettles)
    /\ WF_vars(generateHtml)

\* the batch has ended in one of its three ways
BatchEnded ==
    /\ cli.pc = "done"
    /\ \/ /\ cli.outcome = "nochange"
          /\ cli.attempted = <<>>
          /\ cli.htmlCalls = 0
          /\ cli.exitCode = 0
       \/ /\ cli.outcome = "success"
          /\ cli.changedFiles # <<>>
          /\ cli.attempted = cli.changedFiles
          /\ cli.htmlCalls = 1
          /\ cli.exitCode = 0
       \/ /\ cli.outcome = "abort"
          /\ cli.exitCode = 1

\* C21. Batch termination: when every call to the service and to DocManager
\* settles, the batch ends, with no changed file and nothing processed, or
\* with success after all files and the HTML step, or aborted with exit
\* code 1.
C21_BatchTerminates == <>BatchEnded

\* a batch of two files has ended with success
C21_Witness ==
    /\ BatchEnded
    /\ cli.outcome = "success"
    /\ Len(cli.changedFiles) = MaxBatch

\* C29. generateHtml is called at most once, only when the list was not empty
\* and every file of it has been processed without an error, and the run
\* ends with success only after generateHtml has returned.
C29_HtmlLastAndOnce ==
    /\ cli.htmlCalls <= 1
    /\ cli.pc = "html" \/ cli.htmlCalls = 1
       => /\ cli.changedFiles # <<>>
          /\ cli.attempted = cli.changedFiles
          /\ cli.idx = Len(cli.changedFiles)
          /\ call.pc = "idle"
          /\ hist.last # "raised"
    /\ cli.outcome = "success" => cli.pc = "done" /\ cli.htmlCalls = 1
    /\ cli.outcome = "nochange" => cli.htmlCalls = 0

\* generateHtml has returned after two files, and the run has ended with
\* success
C29_Witness ==
    /\ cli.pc = "done"
    /\ cli.outcome = "success"
    /\ cli.htmlCalls = 1
    /\ Len(cli.attempted) = 2

---------------------------------------------------------------------------
(* The whole program: the CLI entry point dispatches on its first argument *)
(* to the generate command or to the interactive browser                   *)

\* the first positional argument: none, or a word
Inputs == {"undefined", "browse", "generate", "other"}

\* the modes the switch of App names
MenuOptions == {"generate", "chat", "config"}

InitApp ==
    /\ InitWorkspace
    /\ call = IdleCall
    /\ hist = InitHist
    /\ cli \in {[CliOff EXCEPT !.pc = "argv", !.input = i] : i \in Inputs}
    /\ fn = FnOff
    /\ ui = UiOff

\* every command but browse runs the batch
mainGenerateUnlessBrowse ==
    /\ cli.pc = "argv"
    /\ LET command == IF cli.input = "undefined" THEN "browse" ELSE cli.input
       IN  IF command # "browse"
           THEN /\ cli' = [cli EXCEPT !.pc = "start"]
                /\ ui' = ui
           ELSE /\ cli' = [cli EXCEPT !.pc = "render"]
                /\ ui' = [ui EXCEPT !.rendered = TRUE]
    /\ UNCHANGED <<files, tree, call, hist, fn>>

\* the command defaults to browse; generate runs generateDocs, everything
\* else renders App
main ==
    /\ cli.pc = "argv"
    /\ LET command == IF cli.input = "undefined" THEN "browse" ELSE cli.input
       IN  IF command = "generate"
           THEN /\ cli' = [cli EXCEPT !.pc = "start"]
                /\ ui' = ui
           ELSE /\ cli' = [cli EXCEPT !.pc = "render"]
                /\ ui' = [ui EXCEPT !.rendered = TRUE]
    /\ UNCHANGED <<files, tree, call, hist, fn>>

\* the snapshot written anew: a record with the hash of every file there is
generateDirectoryTreeJson(fs) ==
    [state |-> "ok",
     records |-> [p \in Paths |-> IF fs[p] = NoFile THEN NoRecord
                                  ELSE generateHash(fs[p])]]

\* readDirectory: the files there are
readDirectory(fs) == {p \in Paths : fs[p] # NoFile}

\* DocManager.getDocumentation: what the cache holds for the path, read only
getDocumentation(docs, filePath) == docs[filePath]

\* a fresh GenerateMode after its first effect: the state of useState, the
\* directory scanned, and one more generateAllDocumentation awaited
GenerateModeMounted(u) ==
    [u EXCEPT !.activeMode = "generate",
              !.mounts = @ + 1,
              !.pending = @ \cup {u.mounts + 1},
              !.isLoading = TRUE,
              !.error = FALSE,
              !.fileStructure = readDirectory(files),
              !.selectedFile = <<>>,
              !.selectedFileContent = NoDisplay,
              !.selectedFileDocs = NoDisplay,
              !.event = "menu"]

\* an option of the menu is chosen; generate mounts GenerateMode, whose
\* effect rewrites the snapshot and starts the batch
handleMenuSelect ==
    /\ ui.rendered
    /\ ui.activeMode = "null"
    /\ \E option \in MenuOptions :
          IF option = "generate"
          THEN /\ ui.mounts < MaxMounts
               /\ ui' = GenerateModeMounted(ui)
               /\ tree' = generateDirectoryTreeJson(files)
          ELSE /\ ui' = [ui EXCEPT !.activeMode = option,
                                   !.isEditing = option = "config",
                                   !.event = "menu"]
               /\ tree' = tree
    /\ UNCHANGED <<files, call, hist, cli, fn>>

\* Ctrl+B: back to the menu; the mode is unmounted with its state, a batch
\* it started goes on
handleBack ==
    /\ ui.rendered
    /\ ui.activeMode # "null"
    /\ ui' = [ui EXCEPT !.activeMode = "null",
                        !.isLoading = FALSE,
                        !.error = FALSE,
                        !.fileStructure = {},
                        !.selectedFile = <<>>,
                        !.selectedFileContent = NoDisplay,
                        !.selectedFileDocs = NoDisplay,
                        !.isEditing = FALSE,
                        !.event = "back"]
    /\ UNCHANGED <<files, tree, call, hist, cli, fn>>

\* ConfigMode: Enter in the text input saves the key and ends the editing
handleSubmit ==
    /\ ui.rendered
    /\ ui.activeMode = "config"
    /\ ui.isEditing
    /\ ui' = [ui EXCEPT !.isEditing = FALSE, !.event = "submit"]
    /\ UNCHANGED <<files, tree, call, hist, cli, fn>>

\* ConfigMode: the key e, when the key is not being edited, starts the
\* editing again
editAgain ==
    /\ ui.rendered
    /\ ui.activeMode = "config"
    /\ ~ui.isEditing
    /\ ui' = [ui EXCEPT !.isEditing = TRUE, !.event = "edit"]
    /\ UNCHANGED <<files, tree, call, hist, cli, fn>>

\* initialize without its catch block: a rejected batch leaves isLoading set
initializeResumesNoCatch ==
    /\ \E i \in ui.pending, rejects \in BOOLEAN, documented \in SUBSET readDirectory(files) :
          LET mounted == ui.activeMode = "generate" /\ i = ui.mounts
          IN  /\ rejects => documented = {}
              /\ ui' = [ui EXCEPT !.pending = @ \ {i},
                                  !.docs = [p \in Paths |-> @[p] \/ p \in documented],
                                  !.isLoading = IF mounted /\ ~rejects THEN FALSE ELSE @,
                                  !.error = IF mounted /\ rejects THEN TRUE ELSE @,
                                  !.event = IF rejects THEN "reject" ELSE "resolve"]
    /\ UNCHANGED <<files, tree, call, hist, cli, fn>>

\* generateAllDocumentation of some mount settles: it rejects, or resolves
\* with some of the files documented; initialize goes on in the GenerateMode
\* that started it, if that one is still mounted
initializeResumes ==
    /\ \E i \in ui.pending, rejects \in BOOLEAN, documented \in SUBSET readDirectory(files) :
          LET mounted == ui.activeMode = "generate" /\ i = ui.mounts
          IN  /\ rejects => documented = {}
              /\ ui' = [ui EXCEPT !.pending = @ \ {i},
                                  !.docs = [p \in Paths |-> @[p] \/ p \in documented],
                                  !.isLoading = IF mounted THEN FALSE ELSE @,
                                  !.error = IF mounted /\ rejects THEN TRUE ELSE @,
                                  !.event = IF rejects THEN "reject" ELSE "resolve"]
    /\ UNCHANGED <<files, tree, call, hist, cli, fn>>

\* the handler of an older version of the browser: a file with no
\* documentation is documented on selection
handleFileSelectRegenerates(filePath) ==
    /\ ui.rendered
    /\ ui.activeMode = "generate"
    /\ ~ui.isLoading
    /\ ~ui.error
    /\ filePath \in ui.fileStructure
    /\ ui' = [ui EXCEPT !.selectedFile = filePath,
                        !.docs = [@ EXCEPT ![filePath] = TRUE],
                        !.selectedFileContent = [kind |-> "content", of |-> filePath],
                        !.selectedFileDocs = [kind |-> "summary", of |-> filePath],
                        !.event = "select"]
    /\ UNCHANGED <<files, tree, call, hist, cli, fn>>

\* a file of the tree is chosen: it becomes the selected file, and what the
\* cache holds for it, if anything, is displayed
handleFileSelect(filePath) ==
    /\ ui.rendered
    /\ ui.activeMode = "generate"
    /\ ~ui.isLoading
    /\ ~ui.error
    /\ filePath \in ui.fileStructure
    /\ LET doc == getDocumentation(ui.docs, filePath)
       IN  ui' = IF doc
                 THEN [ui EXCEPT !.selectedFile = filePath,
                                 !.selectedFileContent = [kind |-> "content", of |-> filePath],
                                 !.selectedFileDocs = [kind |-> "summary", of |-> filePath],
                                 !.event = "select"]
                 ELSE [ui EXCEPT !.selectedFile = filePath, !.event = "select"]
    /\ UNCHANGED <<files, tree, call, hist, cli, fn>>

NextApp ==
    \/ main
    \/ getChangedFiles
    \/ generateDocumentation
    \/ generateContent
    \/ documentationSettles
    \/ generateHtml
    \/ UserEdit
    \/ handleMenuSelect
    \/ handleBack
    \/ handleSubmit
    \/ editAgain
    \/ initializeResumes
    \/ \E filePath \in Paths : handleFileSelect(filePath)

SpecApp == InitApp /\ [][NextApp]_vars

\* C15. Single writer in the browser: a batch (and with it the rewriting of
\* the snapshot) is started only when no batch started earlier is still
\* awaited.
C15_OneBatchInFlight ==
    [][ui'.pending \ ui.pending # {} => ui.pending = {}]_vars

\* C17. Selecting a file reads the cache and nothing more: it starts no
\* generation, and leaves the cache, the snapshot and the files as they are,
\* whether the cache holds something for the file or not.
C17_SelectIsPureRead ==
    [][(ui'.event = "select" /\ ui' # ui)
       => /\ ui'.pending = ui.pending
          /\ ui'.docs = ui.docs
          /\ call' = call
          /\ tree' = tree
          /\ files' = files]_vars

\* a file the cache holds nothing for has been selected: nothing is awaited,
\* nothing is displayed, and the cache still holds nothing for it
C17_Witness ==
    /\ ui.event = "select"
    /\ ui.selectedFile \in Paths
    /\ ~ui.docs[ui.selectedFile]
    /\ ui.selectedFileDocs = NoDisplay
    /\ ui.pending = {}
    /\ call.pc = "idle"

\* C18. Dispatch: with generate as first argument the batch runs and the
\* browser is never rendered; with no argument or any other word the browser
\* is rendered and the batch never runs.
C18_Dispatch ==
    /\ cli.input = "generate"
       => /\ ~ui.rendered
          /\ cli.pc \in {"argv", "start", "loop", "html", "done"}
    /\ cli.input # "generate"
       => /\ cli.pc \in {"argv", "render"}
          /\ cli.pc = "render" <=> ui.rendered
          /\ cli.attempted = <<>>
          /\ cli.outcome = "none"
          /\ call.pc = "idle"

\* an unknown command has brought up the browser, and the generate mode has
\* been entered from its menu
C18_Witness ==
    /\ cli.input = "other"
    /\ cli.pc = "render"
    /\ ui.rendered
    /\ ui.activeMode = "generate"

\* C22. Display consistency: the documentation and the content displayed
\* beside the tree are those of the selected file.
C22_DisplayOfSelected ==
    /\ ui.selectedFileDocs # NoDisplay => ui.selectedFileDocs.of = ui.selectedFile
    /\ ui.selectedFileContent # NoDisplay => ui.selectedFileContent.of = ui.selectedFile

\* C24. Config mode is left only when the key is not being edited: Ctrl+B
\* during the editing stays in config mode.
C24_NoBackWhileEditing ==
    [][(ui.activeMode = "config" /\ ui'.activeMode # "config") => ~ui.isEditing]_vars

\* the browser when every batch that was started settles
FairSpecApp == SpecApp /\ WF_vars(initializeResumes)

\* C28. Loading always ends: a GenerateMode that shows the loading screen
\* comes to show something else, and when its batch was rejected it shows
\* the error.
C28_LoadingEnds ==
    /\ ui.isLoading ~> ~ui.isLoading
    /\ [][(ui.isLoading /\ ui'.event = "reject" /\ ui'.activeMode = "generate"
             /\ ui'.pending = ui.pending \ {ui.mounts} /\ ui'.pending # ui.pending)
          => ~ui'.isLoading /\ ui'.error]_vars

\* the batch of the mounted GenerateMode was rejected: the loading screen
\* is gone and the error is set
C28_Witness ==
    /\ ui.activeMode = "generate"
    /\ ui.event = "reject"
    /\ ui.mounts \notin ui.pending
    /\ ~ui.isLoading
    /\ ui.error

---------------------------------------------------------------------------
(* The file tree of the browser: readDirectory over a directory on disk,   *)
(* the list handed to generateAllDocumentation, and the keys of FileTree   *)

MaxLeaves == 2      \* most plain entries of one directory

IGNORED_DIRS ==
    { <<"n", "o", "d", "e", "_", "m", "o", "d", "u", "l", "e", "s">>,
      <<"d", "i", "s", "t">>, <<DOT, "g", "i", "t">>,
      <<"c", "o", "v", "e", "r", "a", "g", "e">>,
      <<DOT, "n", "e", "x", "t">>, <<DOT, "c", "a", "c", "h", "e">> }

INTERESTING_EXTENSIONS ==
    { <<DOT, "j", "s">>, <<DOT, "j", "s", "x">>, <<DOT, "t", "s">>,
      <<DOT, "t", "s", "x">>, <<DOT, "p", "y">>, <<DOT, "r", "b">>,
      <<DOT, "j", "a", "v", "a">>, <<DOT, "g", "o">>,
      <<DOT, "c", "p", "p">>, <<DOT, "c">>, <<DOT, "h">>,
      <<DOT, "h", "p", "p">>, <<DOT, "m", "d">>,
      <<DOT, "t", "x", "t">> }

COMMON_FILES ==
    { <<DOT, "j", "s", "o", "n">>, <<DOT, "l", "o", "g">>,
      <<DOT, "m", "d">>, <<DOT, "t", "x", "t">>,
      <<DOT, "y", "m", "l">>, <<DOT, "y", "a", "m", "l">>,
      <<DOT, "e", "n", "v">>,
      <<DOT, "g", "i", "t", "i", "g", "n", "o", "r", "e">>,
      <<"L", "I", "C", "E", "N", "S", "E">>,
      <<"R", "E", "A", "D", "M", "E">> }

\* String.prototype.toLowerCase on the letters that occur
LowerOf(ch) ==
    CASE ch = "R" -> "r" [] ch = "E" -> "e" [] ch = "A" -> "a"
      [] ch = "D" -> "d" [] ch = "M" -> "m" [] OTHER -> ch

toLowerCase(text) == [i \in 1..Len(text) |-> LowerOf(text[i])]

\* the pieces of a path between its separators
RECURSIVE SplitPath(_)
SplitPath(p) ==
    IF \A i \in 1..Len(p) : p[i] # SLASH THEN <<p>>
    ELSE LET k == CHOOSE i \in 1..Len(p) :
                     p[i] = SLASH /\ \A j \in 1..(i - 1) : p[j] # SLASH
         IN  <<Slice(p, 1, k - 1)>> \o SplitPath(Slice(p, k + 1, Len(p)))

RECURSIVE JoinSegments(_)
JoinSegments(segs) ==
    IF segs = <<>> THEN <<>>
    ELSE IF Len(segs) = 1 THEN segs[1]
    ELSE segs[1] \o <<SLASH>> \o JoinSegments(Tail(segs))

\* path.normalize for paths with no .. segment and no trailing separator:
\* empty and . segments go, a leading separator stays
normalize(p) ==
    LET kept == SelectSeq(SplitPath(p), LAMBDA seg : seg # <<>> /\ seg # <<DOT>>)
        body == JoinSegments(kept)
        whole == IF p # <<>> /\ p[1] = SLASH THEN <<SLASH>> \o body ELSE body
    IN  IF whole = <<>> THEN <<DOT>> ELSE whole

\* path.join of two non-empty paths
pathJoin(a, b) == normalize(a \o <<SLASH>> \o b)

\* path.basename of a path with no trailing separator
basename(p) == LET segs == SplitPath(p) IN segs[Len(segs)]

isCommonFile(filename) ==
    LET ext == toLowerCase(extname(filename))
    IN  ext \in COMMON_FILES \/ basename(filename) \in COMMON_FILES

\* what is on disk: a file, a directory with its entries in the order of
\* readdirSync, or an entry whose statSync throws
DiskFile(name) == [name |-> name, kind |-> "file", children |-> <<>>]
DiskError(name) == [name |-> name, kind |-> "error", children |-> <<>>]
DiskDir(name, children) == [name |-> name, kind |-> "dir", children |-> children]

\* a node of the tree that readDirectory returns; visited is the path it was
\* read at, which the code does not keep
FileNode(name, type, documentation, children, visited) ==
    [name |-> name, type |-> type, documentation |-> documentation,
     children |-> children, visited |-> visited]

\* readDirectory of lines 147-232, on the entry found at dirPath
RECURSIVE readDirectoryNode(_, _)
readDirectoryNode(dirPath, entry) ==
    LET name == basename(dirPath)
    IN  IF entry.kind = "error"
        THEN FileNode(name, "file", "Error", <<>>, dirPath)
        ELSE IF entry.kind = "dir"
        THEN IF name \in IGNORED_DIRS
             THEN FileNode(name, "directory", "none", <<>>, dirPath)
             ELSE LET items == SelectSeq(entry.children, LAMBDA item : item.name[1] # DOT)
                      read == [i \in 1..Len(items) |->
                                 readDirectoryNode(pathJoin(dirPath, items[i].name), items[i])]
                      children == SelectSeq(read, LAMBDA child :
                                     ~(child.type = "directory" /\ child.children = <<>>))
                  IN  FileNode(name, "directory", "none", children, dirPath)
        ELSE LET ext == toLowerCase(extname(name))
             IN  IF ext \notin INTERESTING_EXTENSIONS
                 THEN IF isCommonFile(name)
                      THEN FileNode(name, "file", "Common file type - preview only",
                                    <<>>, dirPath)
                      ELSE FileNode(name, "file", "Not a supported file type",
                                    <<>>, dirPath)
                 ELSE FileNode(name, "file", "Documentation will be generated here",
                               <<>>, dirPath)

\* getAllFilesFromStructure of lines 649-666
RECURSIVE getAllFilesFromStructure(_, _)
getAllFilesFromStructure(node, currentPath) ==
    LET path == IF currentPath # <<>> THEN currentPath \o <<SLASH>> \o node.name
                ELSE node.name
    IN  IF node.type = "file" THEN <<path>>
        ELSE Flatten([i \in 1..Len(node.children) |->
                        getAllFilesFromStructure(node.children[i], path)])

\* flattenTree of FileTree.tsx
RECURSIVE flattenTree(_, _, _)
flattenTree(node, parentPath, level) ==
    LET currentPath == IF parentPath # <<>> THEN parentPath \o <<SLASH>> \o node.name
                       ELSE node.name
    IN  <<[node |-> node, path |-> currentPath, level |-> level]>> \o
        (IF node.type = "directory"
         THEN Flatten([i \in 1..Len(node.children) |->
                         flattenTree(node.children[i], currentPath, level + 1)])
         ELSE <<>>)

\* sequences over S of at most n entries, no entry twice
InjectiveSeqsUpTo(S, n) ==
    {q \in SeqsUpTo(S, n) : \A i, j \in 1..Len(q) : i # j => q[i] # q[j]}

\* plain entries: a source file, a common file, a file of no known type, and
\* an entry that cannot be read
LeafEntries ==
    { DiskFile(<<"a", DOT, "t", "s">>),
      DiskFile(<<"c", DOT, "j", "s", "o", "n">>),
      DiskFile(<<"b", DOT, "x">>),
      DiskError(<<"e", DOT, "t", "s">>) }

DirNames == { <<"s", "r", "c">>, <<"d", "i", "s", "t">> }

\* a directory of plain entries, with or without one directory of plain
\* entries in front of them; or a root that cannot be read
Disks ==
    { DiskDir(<<>>, leaves) : leaves \in InjectiveSeqsUpTo(LeafEntries, MaxLeaves) } \cup
    { DiskDir(<<>>, <<DiskDir(d, inner)>> \o leaves) :
         d \in DirNames,
         inner \in InjectiveSeqsUpTo(LeafEntries, MaxLeaves),
         leaves \in InjectiveSeqsUpTo(LeafEntries, MaxLeaves) } \cup
    { DiskError(<<>>) }

\* the workspace root: the current directory as a relative path, and an
\* absolute path
WorkspacePaths == { <<DOT>>, <<SLASH, "w">> }

Keys == {"upArrow", "downArrow", "return", "space", "other"}

NoPath == <<>>

InitTree ==
    /\ ParkedWorkspace
    /\ fn \in {[pc |-> "disk", workspacePath |-> w, disk |-> d,
                fileStructure |-> DiskError(<<>>), filesToDocument |-> <<>>,
                focusedIndex |-> 0, isFocused |-> FALSE, key |-> "none",
                onSelect |-> NoPath, absolutePath |-> NoPath] :
                  w \in WorkspacePaths, d \in Disks}

\* initialize of GenerateMode, lines 296-307: the directory is read and the
\* list for generateAllDocumentation is taken from it; FileTree starts with
\* the focus on the first node
scanWorkspace ==
    /\ fn.pc = "disk"
    /\ LET structure == readDirectoryNode(fn.workspacePath, fn.disk)
       IN  fn' = [fn EXCEPT !.pc = "browse",
                            !.fileStructure = structure,
                            !.filesToDocument = getAllFilesFromStructure(structure, <<>>),
                            !.focusedIndex = 0,
                            !.isFocused = TRUE]
    /\ UNCHANGED <<files, tree, call, hist, cli, ui>>

\* the path whose preview handleFileSelect reads for a common file, lines
\* 350-356; NoPath for any other file
commonFilePreviewPath(workspacePath, filePath) ==
    IF isCommonFile(basename(filePath))
    THEN pathJoin(workspacePath, filePath)
    ELSE NoPath

\* the handler without Math.max and Math.min
FileTreeInputUnclamped(key) ==
    /\ fn.pc = "browse"
    /\ LET flattenedFiles == flattenTree(fn.fileStructure, <<>>, 0)
           focusedItem == flattenedFiles[fn.focusedIndex + 1]
           selects == /\ fn.isFocused
                      /\ key \in {"return", "space"}
                      /\ fn.focusedIndex + 1 \in 1..Len(flattenedFiles)
                      /\ focusedItem.node.type = "file"
       IN  fn' = [fn EXCEPT
                    !.key = key,
                    !.focusedIndex =
                        IF ~fn.isFocused THEN @
                        ELSE IF key = "upArrow" /\ @ > -2 THEN @ - 1
                        ELSE IF key = "downArrow" /\ @ < Len(flattenedFiles) + 1 THEN @ + 1
                        ELSE @,
                    !.onSelect = IF selects THEN focusedItem.path ELSE NoPath,
                    !.absolutePath =
                        IF selects
                        THEN commonFilePreviewPath(fn.workspacePath, focusedItem.path)
                        ELSE NoPath]
    /\ UNCHANGED <<files, tree, call, hist, cli, ui>>

\* useInput of FileTree, lines 45-58, with the handleFileSelect it calls
FileTreeInput(key) ==
    /\ fn.pc = "browse"
    /\ LET flattenedFiles == flattenTree(fn.fileStructure, <<>>, 0)
           focusedItem == flattenedFiles[fn.focusedIndex + 1]
           selects == /\ fn.isFocused
                      /\ key \in {"return", "space"}
                      /\ fn.focusedIndex + 1 \in 1..Len(flattenedFiles)
                      /\ focusedItem.node.type = "file"
       IN  fn' = [fn EXCEPT
                    !.key = key,
                    !.focusedIndex =
                        IF ~fn.isFocused THEN @
                        ELSE IF key = "upArrow" THEN IF @ - 1 > 0 THEN @ - 1 ELSE 0
                        ELSE IF key = "downArrow"
                        THEN IF @ + 1 < Len(flattenedFiles) - 1 THEN @ + 1
                             ELSE Len(flattenedFiles) - 1
                        ELSE @,
                    !.onSelect = IF selects THEN focusedItem.path ELSE NoPath,
                    !.absolutePath =
                        IF selects
                        THEN commonFilePreviewPath(fn.workspacePath, focusedItem.path)
                        ELSE NoPath]
    /\ UNCHANGED <<files, tree, call, hist, cli, ui>>

\* the focus of the terminal leaves FileTree (Escape) or comes back (Tab)
focusChange ==
    /\ fn.pc = "browse"
    /\ fn' = [fn EXCEPT !.isFocused = ~@, !.key = "focus", !.onSelect = NoPath,
                        !.absolutePath = NoPath]
    /\ UNCHANGED <<files, tree, call, hist, cli, ui>>

NextTree ==
    \/ scanWorkspace
    \/ \E key \in Keys : FileTreeInput(key)
    \/ focusChange

SpecTree == InitTree /\ [][NextTree]_vars

\* the flattened tree on display
FlattenedFiles == flattenTree(fn.fileStructure, <<>>, 0)

\* C25. Only supported files are submitted: every path of the list for
\* generateAllDocumentation is the path of a node that readDirectory marked
\* for generation, not of an unsupported file, a common file or a read error.
C25_OnlySupportedSubmitted ==
    fn.pc = "browse"
    => \A i \in 1..Len(fn.filesToDocument) :
          \E k \in 1..Len(FlattenedFiles) :
             /\ FlattenedFiles[k].path = fn.filesToDocument[i]
             /\ FlattenedFiles[k].node.documentation
                   = "Documentation will be generated here"

\* C26. Common-file preview: the path whose preview is read for a selected
\* common file is the path readDirectory read that node at.
C26_PreviewPathIsVisited ==
    (fn.pc = "browse" /\ fn.absolutePath # NoPath)
    => \E k \in 1..Len(FlattenedFiles) :
          /\ FlattenedFiles[k].path = fn.onSelect
          /\ fn.absolutePath = normalize(FlattenedFiles[k].node.visited)

\* C27. Navigation: focusedIndex stays an index of the flattened tree, and
\* onSelect is called only on Enter or Space, with the focus on FileTree, and
\* with the path of the focused node, which is a file.
C27_NavigationSafe ==
    fn.pc = "browse"
    => /\ fn.focusedIndex \in 0..(Len(FlattenedFiles) - 1)
       /\ fn.onSelect # NoPath
          => /\ fn.key \in {"return", "space"}
             /\ fn.isFocused
             /\ FlattenedFiles[fn.focusedIndex + 1].path = fn.onSelect
             /\ FlattenedFiles[fn.focusedIndex + 1].node.type = "file"

\* Space on the last node of a tree with a directory in it has selected a
\* file
C27_Witness ==
    /\ fn.pc = "browse"
    /\ fn.key = "space"
    /\ fn.onSelect # NoPath
    /\ Len(FlattenedFiles) >= 4
    /\ fn.focusedIndex = Len(FlattenedFiles) - 1
    /\ \E k \in 1..Len(FlattenedFiles) : k > 1 /\ FlattenedFiles[k].node.type = "directory"

=============================================================================
